---- MODULE Spec2Model ----
(***************************************************************************)
(* Item microservice: the optimistic-lock update of the item repository    *)
(* (services/ItemDataService.py), the job repository                       *)
(* (services/JobDataService.py) and the job-backed creation workflow of    *)
(* the HTTP routes (resources/item_resource.py).                           *)
(*                                                                         *)
(* Eight specifications share the module.  Spec is the item store under    *)
(* concurrent update_with_lock calls and LiveSpec the same calls under     *)
(* fair scheduling; HttpSpec is the job table under the POST /items/       *)
(* route, its background task and the polling route; JobSpec adds direct   *)
(* calls of the job repository and JobRepoSpec keeps only those; StoreSpec *)
(* is the item store under awaited repository operations and the item      *)
(* routes; DeleteSpec runs concurrent DELETE requests step by step; TxSpec *)
(* runs every mutating repository operation with commits that succeed or   *)
(* fail.                                                                   *)
(***************************************************************************)
EXTENDS Integers, FiniteSets, Sequences, TLC

\* ------------------------------------------------------------------ bounds
\* Largest value of the wall clock, counted in units of the resolution of
\* the updated_at column (a MySQL DATETIME keeps whole seconds).
MaxClock == 2

\* Largest skip and largest limit of a listing.
MaxSkip == 1
MaxLimit == 2

\* --------------------------------------------------------------- constants
HTTP_200_OK == 200
HTTP_204_NO_CONTENT == 204
HTTP_400_BAD_REQUEST == 400
HTTP_404_NOT_FOUND == 404
HTTP_412_PRECONDITION_FAILED == 412
HTTP_202_ACCEPTED == 202
HTTP_500_INTERNAL_SERVER_ERROR == 500

\* ------------------------------------------------------------ value spaces
ItemIds == {"i1", "i2"}
CategoryIds == {"c1"}

\* The category ids a payload can name: those of existing categories and one
\* that no category row has.
RequestedCategoryIds == CategoryIds \cup {"c9"}
Titles == {"sofa", "desk"}
TransactionType == {"SALE", "RENT"}
Callers == {"a", "b"}
NoResult == 0
Timestamps == 0..MaxClock

\* The fields an ItemUpdate payload can mark as set that the model follows:
\* two columns of the items table and the category list.
ItemUpdateFields == {"title", "transaction_type", "category_ids"}

\* The mapped columns of the items table that the model follows.
ItemColumns == {"title", "transaction_type"}

\* ItemUpdate payloads: the set of explicitly set fields (model_fields_set)
\* and their values; a field that is not set holds its default.
ItemUpdate ==
    { u \in [fields_set : SUBSET ItemUpdateFields,
             title : Titles \cup {"None"},
             transaction_type : TransactionType \cup {"None"},
             category_ids : SUBSET RequestedCategoryIds] :
        /\ ("title" \in u.fields_set) = (u.title # "None")
        /\ ("transaction_type" \in u.fields_set) = (u.transaction_type # "None")
        /\ ("category_ids" \notin u.fields_set) => u.category_ids = {} }

JobIds == {"j1", "j2"}
JobStatus == {"PENDING", "RUNNING", "COMPLETED", "FAILED"}
Terminal == {"COMPLETED", "FAILED"}

VARIABLES
    clock,      \* datetime.utcnow(), in units of the column's resolution
    items,      \* the items table with each row's category links
    lock,       \* holder of the exclusive row lock of each item row
    calls,      \* the update_with_lock call of each caller
    jobs,       \* the jobs table
    post,       \* the POST /items/ request that generated each job id
    task,       \* the background task scheduled for each job id
    taskWrites, \* the status writes each task has performed on its job row
    polled,     \* the response of the last GET /items/jobs/{job_id}
    last        \* the last repository operation or item route: its
                \* arguments and what it returned or raised

itemVars == <<clock, items, lock, calls>>
jobVars == <<jobs, post, task, taskWrites, polled>>
vars ==
    <<clock, items, lock, calls, jobs, post, task, taskWrites, polled, last>>

\* -------------------------------------------------------------- item store
\* A row of the items table together with its item_category_link rows.
Item(title, transaction_type, created_at, updated_at, categories) ==
    [title |-> title, transaction_type |-> transaction_type,
     created_at |-> created_at, updated_at |-> updated_at,
     categories |-> categories]

\* The absence of a row (the query's first() returning None).
NoRow == Item("None", "None", -1, -1, {})

\* The payload that sets no field.
EmptyUpdate ==
    [fields_set |-> {}, title |-> "None", transaction_type |-> "None",
     category_ids |-> {}]

\* ItemCreate payloads: the fields the model follows.
ItemCreate ==
    [title : Titles, transaction_type : TransactionType,
     category_ids : SUBSET RequestedCategoryIds]

\* No creation payload.
NoCreate == [title |-> "None", transaction_type |-> "None", category_ids |-> {}]

\* An Optional[List] argument that was not given (None).
NoneList == {"None"}

\* The values of the title_search argument: None and two patterns.
TitleSearches == {"None", "OF", "esk"}

\* The arguments of a filtered listing.
ItemQuery ==
    [ids : {NoneList, {}, {"i1"}, ItemIds},
     transaction_type : TransactionType \cup {"None"},
     category_id : CategoryIds \cup {"None"},
     title_search : TitleSearches,
     skip : 0..MaxSkip,
     limit : 1..MaxLimit]

\* The listing arguments at their defaults, for operations that take none.
NoQuery ==
    [ids |-> NoneList, transaction_type |-> "None", category_id |-> "None",
     title_search |-> "None", skip |-> 0, limit |-> 1]

\* The record of an operation that has not happened: no argument, nothing
\* returned, nothing raised, no response.
NoLast ==
    [op |-> "None", id |-> "None", item_update |-> EmptyUpdate,
     obj_in |-> NoCreate, query |-> NoQuery, if_match |-> "None",
     attrs |-> {}, raised |-> "None", row |-> NoRow, rows |-> <<>>,
     status_code |-> NoResult, etag |-> "None"]

IdleCall ==
    [pc |-> "idle", item_id |-> "i1", expected_updated_at |-> 0,
     db_obj |-> NoRow, attrs |-> {}, result |-> NoResult]

\* Category rows whose key is among the ids (select(Category).where(in_)).
ResolveCategories(ids) == ids \cap CategoryIds

\* model_dump(exclude_unset=True, exclude={"category_UUIDs"}): every set
\* field but the excluded name.
update_data(u) == u.fields_set \ {"category_UUIDs"}

\* The loop of setattr calls: only keys that name a mapped column reach the
\* row; any other key becomes a plain attribute of the Python object.
ApplyColumns(row, u) ==
    [row EXCEPT
        !.title = IF "title" \in update_data(u) THEN u.title ELSE @,
        !.transaction_type = IF "transaction_type" \in update_data(u)
                             THEN u.transaction_type ELSE @]

\* The names the setattr loop sets on the loaded object that are not mapped
\* columns: they stay plain attributes of the Python object.
PlainAttributes(u) == update_data(u) \ ItemColumns

\* The category branch, entered when "category_UUIDs" is among the set
\* fields of the payload.
ApplyCategories(row, u) ==
    IF "category_UUIDs" \in u.fields_set
    THEN IF u.category_ids = {}
         THEN [row EXCEPT !.categories = {}]
         ELSE [row EXCEPT !.categories = ResolveCategories(u.category_ids)]
    ELSE row

\* Column onupdate=datetime.utcnow: the flush emits an UPDATE of the items
\* row, and with it the new updated_at, only when a column value changed.
Flush(old, new, now) ==
    IF new.title # old.title \/ new.transaction_type # old.transaction_type
    THEN [new EXCEPT !.updated_at = now]
    ELSE new

\* Variant of the ETag test that rejects only a row newer than expected.
ETagMismatch_newer(row_updated_at, expected) == row_updated_at > expected

\* The ETag test of update_with_lock: TRUE when the call must be rejected.
ETagMismatch(row_updated_at, expected) == row_updated_at # expected

ItemInit ==
    /\ clock = 0
    /\ items = [i \in ItemIds |->
                   IF i = "i1" THEN Item("sofa", "SALE", 0, 0, CategoryIds)
                   ELSE NoRow]
    /\ lock = [i \in ItemIds |-> "free"]
    /\ calls = [c \in Callers |-> IdleCall]
    /\ last = NoLast

\* The wall clock advances.
Tick ==
    /\ clock < MaxClock
    /\ clock' = clock + 1
    /\ UNCHANGED <<items, lock, calls, jobVars, last>>

\* An awaiting caller enters update_with_lock(item_id, _, expected).
CallUpdate(c, i, e) ==
    /\ calls[c].pc \in {"idle", "done"}
    /\ calls' = [calls EXCEPT ![c] =
                    [IdleCall EXCEPT !.pc = "select", !.item_id = i,
                                     !.expected_updated_at = e]]
    /\ UNCHANGED <<clock, items, lock, jobVars, last>>

\* Variant of the select that hands an absent row on to the timestamp
\* comparison instead of raising 404.
SelectForUpdate_nocheck(c) ==
    LET i == calls[c].item_id IN
    /\ calls[c].pc = "select"
    /\ lock[i] = "free"
    /\ lock' = [lock EXCEPT ![i] = c]
    /\ calls' = [calls EXCEPT ![c].pc = "check", ![c].db_obj = items[i]]
    /\ UNCHANGED <<clock, items, jobVars, last>>

\* SELECT ... FOR UPDATE: blocks while another transaction holds the row
\* lock; no row raises 404, which ends the transaction.
SelectForUpdate(c) ==
    LET i == calls[c].item_id IN
    /\ calls[c].pc = "select"
    /\ IF items[i] = NoRow
       THEN /\ calls' = [calls EXCEPT ![c].pc = "done",
                                      ![c].result = HTTP_404_NOT_FOUND]
            /\ UNCHANGED lock
       ELSE /\ lock[i] = "free"
            /\ lock' = [lock EXCEPT ![i] = c]
            /\ calls' = [calls EXCEPT ![c].pc = "check",
                                      ![c].db_obj = items[i]]
    /\ UNCHANGED <<clock, items, jobVars, last>>

\* Variant of the comparison that gives the row lock up once the
\* timestamps agree.
CheckETag_release(c) ==
    LET i == calls[c].item_id IN
    /\ calls[c].pc = "check"
    /\ lock' = [lock EXCEPT ![i] = "free"]
    /\ calls' = [calls EXCEPT
                    ![c].pc =
                        IF ETagMismatch(calls[c].db_obj.updated_at,
                                        calls[c].expected_updated_at)
                        THEN "done" ELSE "commit",
                    ![c].result =
                        IF ETagMismatch(calls[c].db_obj.updated_at,
                                        calls[c].expected_updated_at)
                        THEN HTTP_412_PRECONDITION_FAILED ELSE @]
    /\ UNCHANGED <<clock, items, jobVars, last>>

\* The timestamp comparison; a mismatch raises 412 and the session's
\* rollback releases the lock.
CheckETag(c) ==
    LET i == calls[c].item_id IN
    /\ calls[c].pc = "check"
    /\ IF ETagMismatch(calls[c].db_obj.updated_at, calls[c].expected_updated_at)
       THEN /\ calls' = [calls EXCEPT ![c].pc = "done",
                                      ![c].result = HTTP_412_PRECONDITION_FAILED]
            /\ lock' = [lock EXCEPT ![i] = "free"]
       ELSE /\ calls' = [calls EXCEPT ![c].pc = "commit"]
            /\ UNCHANGED lock
    /\ UNCHANGED <<clock, items, jobVars, last>>

\* Variant of the transaction end that keeps what a failed commit wrote.
EndTransaction_autocommit(before, written, committed) == written

\* The end of a session's transaction (autocommit=False): COMMIT persists
\* what its statements wrote; a commit that fails, or the rollback of
\* get_db, discards all of it.
EndTransaction(before, written, committed) ==
    IF committed THEN written ELSE before

\* Variant of the commit step whose failed commit leaves the row lock held.
CommitUpdate_keep(c, u, committed) ==
    LET i == calls[c].item_id
        new == ApplyCategories(ApplyColumns(calls[c].db_obj, u), u)
        stored == Flush(calls[c].db_obj, new, clock)
    IN
    /\ calls[c].pc = "commit"
    /\ items' = [items EXCEPT ![i] = EndTransaction(@, stored, committed)]
    /\ lock' = IF committed THEN [lock EXCEPT ![i] = "free"] ELSE lock
    /\ calls' = [calls EXCEPT
                    ![c].pc = "done",
                    ![c].db_obj = IF committed THEN stored ELSE @,
                    ![c].attrs = PlainAttributes(u),
                    ![c].result = IF committed THEN HTTP_200_OK
                                  ELSE HTTP_500_INTERNAL_SERVER_ERROR]
    /\ UNCHANGED <<clock, jobVars, last>>

\* Apply the payload to the loaded object, flush, commit and return.  The
\* payload is first read here, so it is drawn here.  The commit succeeds or
\* raises (the store is unavailable, the transaction fails).
CommitUpdate(c, u, committed) ==
    LET i == calls[c].item_id
        new == ApplyCategories(ApplyColumns(calls[c].db_obj, u), u)
        stored == Flush(calls[c].db_obj, new, clock)
    IN
    /\ calls[c].pc = "commit"
    /\ items' = [items EXCEPT ![i] = EndTransaction(@, stored, committed)]
    /\ lock' = [lock EXCEPT ![i] = "free"]
    /\ calls' = [calls EXCEPT
                    ![c].pc = "done",
                    ![c].db_obj = IF committed THEN stored ELSE @,
                    ![c].attrs = PlainAttributes(u),
                    ![c].result = IF committed THEN HTTP_200_OK
                                  ELSE HTTP_500_INTERNAL_SERVER_ERROR]
    /\ UNCHANGED <<clock, jobVars, last>>

ItemNext ==
    \/ Tick
    \/ \E c \in Callers, i \in ItemIds, e \in Timestamps : CallUpdate(c, i, e)
    \/ \E c \in Callers : SelectForUpdate(c)
    \/ \E c \in Callers : CheckETag(c)
    \/ \E c \in Callers, u \in ItemUpdate, committed \in BOOLEAN :
            CommitUpdate(c, u, committed)

\* ---------------------------------------------------- repository operations
\* What an awaited repository method leaves behind: the store, the exception
\* it raised ("None" when it returned) and the object it returned.
Returned(store, row) == [store |-> store, raised |-> "None", row |-> row]
Raised(store, exception) == [store |-> store, raised |-> exception, row |-> NoRow]

\* `await db.commit()` at the end of a method: the written store and the
\* object when the commit succeeds, the store as before and the driver's
\* error when it fails.
Commit(before, written, committed, row) ==
    [store |-> EndTransaction(before, written, committed),
     raised |-> IF committed THEN "None" ELSE "OperationalError",
     row |-> IF committed THEN row ELSE NoRow]

\* The keys of ItemCreate.model_dump() that the model follows.
ItemCreateFields == {"title", "transaction_type", "category_ids"}

\* The keyword arguments the declarative constructor of Item accepts: the
\* names of its mapped attributes.
ItemAttributes == ItemColumns \cup {"categories"}

\* ItemDataService.create: pop "category_UUIDs" from the dumped payload,
\* construct the Item from what is left, link the categories found, add,
\* commit.  The constructor raises TypeError for a key that is no mapped
\* attribute; Category has no attribute category_UUID.
create(store, new_id, obj_in, now, committed) ==
    LET create_data == ItemCreateFields
        category_ids == IF "category_UUIDs" \in create_data
                        THEN obj_in.category_ids ELSE {}
        kwargs == create_data \ {"category_UUIDs"}
        db_obj == Item(obj_in.title, obj_in.transaction_type, now, now,
                       ResolveCategories(category_ids))
    IN IF ~(kwargs \subseteq ItemAttributes)
       THEN Raised(store, "TypeError")
       ELSE IF category_ids # {}
       THEN Raised(store, "AttributeError")
       ELSE Commit(store, [store EXCEPT ![new_id] = db_obj], committed, db_obj)

\* MySQLDataService.get
get(store, id_) == store[id_]

\* MySQLDataService.delete: the commit runs only when the row was found.
delete(store, id_, committed) ==
    LET obj == get(store, id_) IN
    IF obj # NoRow
    THEN Commit(store, [store EXCEPT ![id_] = NoRow], committed, obj)
    ELSE Returned(store, obj)

\* MySQLDataService.update on the loaded row of id_: every set field that
\* the object has as an attribute is assigned, then the commit.
update(store, id_, u, now, committed) ==
    LET db_obj == get(store, id_)
        fields == {f \in u.fields_set : f \in ItemAttributes}
        new == [db_obj EXCEPT
                  !.title = IF "title" \in fields THEN u.title ELSE @,
                  !.transaction_type = IF "transaction_type" \in fields
                                       THEN u.transaction_type ELSE @]
        stored == Flush(db_obj, new, now)
    IN Commit(store, [store EXCEPT ![id_] = stored], committed, stored)

\* ItemDataService.update_with_lock run to its end by one awaiting caller
\* with no other transaction on the row: the select, the 404 test, the
\* ETag test, the assignments and the commit.
update_with_lock(store, item_id, u, expected_updated_at, now, committed) ==
    LET db_obj == store[item_id]
        new == ApplyCategories(ApplyColumns(db_obj, u), u)
        stored == Flush(db_obj, new, now)
    IN IF db_obj = NoRow
       THEN Raised(store, "HTTPException 404")
       ELSE IF ETagMismatch(db_obj.updated_at, expected_updated_at)
       THEN Raised(store, "HTTPException 412")
       ELSE Commit(store, [store EXCEPT ![item_id] = stored], committed, stored)

\* The characters of the titles and of the search patterns.
Chars(s) ==
    CASE s = "sofa" -> <<"s", "o", "f", "a">>
      [] s = "desk" -> <<"d", "e", "s", "k">>
      [] s = "OF" -> <<"O", "F">>
      [] s = "esk" -> <<"e", "s", "k">>
      [] OTHER -> <<>>

\* Lower case, character by character.
Lower(cs) ==
    [k \in DOMAIN cs |->
        CASE cs[k] = "O" -> "o" [] cs[k] = "F" -> "f" [] OTHER -> cs[k]]

\* needle occurs in hay as a contiguous run.
Contains(hay, needle) ==
    \E k \in 0..(Len(hay) - Len(needle)) :
        SubSeq(hay, k + 1, k + Len(needle)) = needle

\* title.ilike("%pattern%"): containment that ignores case.
ilike(title, pattern) == Contains(Lower(Chars(title)), Lower(Chars(pattern)))

\* The rows the where clauses of get_multi_filtered keep; a clause is added
\* only for an argument that is truthy (None, [] and "" are not).
Selected(store, q) ==
    {i \in ItemIds :
        /\ store[i] # NoRow
        /\ (q.ids # NoneList /\ q.ids # {}) => i \in q.ids
        /\ q.transaction_type # "None"
              => store[i].transaction_type = q.transaction_type
        /\ q.title_search \notin {"None", ""}
              => ilike(store[i].title, q.title_search)}

\* order_by(created_at.desc()): the orders of the kept rows the database may
\* return; rows of equal created_at come in any order.
Orderings(store, S) ==
    {s \in [1..Cardinality(S) -> S] :
        \A a, b \in 1..Cardinality(S) :
            a < b => /\ s[a] # s[b]
                     /\ store[s[a]].created_at >= store[s[b]].created_at}

\* offset(skip).limit(limit)
Page(s, skip, limit) ==
    SubSeq(s, skip + 1, IF skip + limit < Len(s) THEN skip + limit ELSE Len(s))

\* The store after a call of an `async def` function whose coroutine is
\* never awaited: the body has not run, so the store is as before the call and the
\* caller holds the coroutine object, not the returned value.
NotAwaited(before, after) == before

\* What a call of an `async def` method of the item service hands to a
\* caller that does not await it: a coroutine object, which is truthy and
\* has none of the attributes of an item.
CoroutineItem == Item("coroutine", "None", -1, -1, {})

\* The value has the attributes of an item.
IsItem(value) == value.title \in Titles

\* datetime.isoformat()
IsoFormat(t) == "1970-01-01T00:00:0" \o ToString(t)

\* f'"{value}"'
Quote(s) == "\"" \o s \o "\""

\* The strings between the quotes of the If-Match values the model sends.
RawValues == {IsoFormat(t) : t \in Timestamps} \cup {"", "abc"}

\* The If-Match header values: quoted timestamps, a bare timestamp, quoted
\* text that is no timestamp and the empty quoted string.
IfMatchValues ==
    {Quote(IsoFormat(t)) : t \in Timestamps}
        \cup {IsoFormat(0), Quote("abc"), Quote("")}

\* if_match.strip('"')
strip(h) ==
    IF \E r \in RawValues : h = Quote(r)
    THEN CHOOSE r \in RawValues : h = Quote(r)
    ELSE h

\* The outcome of datetime.fromisoformat on a string that is no timestamp.
ValueError == -1

\* datetime.fromisoformat
fromisoformat(s) ==
    IF \E t \in Timestamps : s = IsoFormat(t)
    THEN CHOOSE t \in Timestamps : s = IsoFormat(t)
    ELSE ValueError

\* The keyword arguments list_items passes to get_multi_filtered and the
\* parameters get_multi_filtered declares.
ListItemsKeywords ==
    {"db", "ids", "category", "transaction_type", "skip", "limit"}
GetMultiFilteredParameters ==
    {"db", "ids", "category_id", "transaction_type", "title_search",
     "skip", "limit"}

\* An awaiting caller runs ItemDataService.create; the key is a new uuid4.
SvcCreate(new_id, obj_in, committed) ==
    LET r == create(items, new_id, obj_in, clock, committed) IN
    /\ items[new_id] = NoRow
    /\ items' = r.store
    /\ last' = [NoLast EXCEPT !.op = "create", !.id = new_id,
                              !.obj_in = obj_in, !.raised = r.raised,
                              !.row = r.row]
    /\ UNCHANGED <<clock, lock, calls, jobVars>>

\* An awaiting caller runs get.
SvcGet(i) ==
    /\ last' = [NoLast EXCEPT !.op = "get", !.id = i, !.row = get(items, i)]
    /\ UNCHANGED <<clock, items, lock, calls, jobVars>>

\* An awaiting caller runs delete.
SvcDelete(i, committed) ==
    LET r == delete(items, i, committed) IN
    /\ items' = r.store
    /\ last' = [NoLast EXCEPT !.op = "delete", !.id = i,
                              !.raised = r.raised, !.row = r.row]
    /\ UNCHANGED <<clock, lock, calls, jobVars>>

\* An awaiting caller runs update on a row it has loaded.
SvcUpdate(i, u, committed) ==
    LET r == update(items, i, u, clock, committed) IN
    /\ items[i] # NoRow
    /\ lock[i] = "free"
    /\ items' = r.store
    /\ last' = [NoLast EXCEPT !.op = "update", !.id = i, !.raised = r.raised]
    /\ UNCHANGED <<clock, lock, calls, jobVars>>

\* An awaiting caller runs get_multi_filtered.  Building the category
\* clause reads Category.category_UUID, which the class does not have.
SvcGetMultiFiltered(q) ==
    /\ IF q.category_id # "None"
       THEN last' = [NoLast EXCEPT !.op = "get_multi_filtered", !.query = q,
                                   !.raised = "AttributeError"]
       ELSE \E s \in Orderings(items, Selected(items, q)) :
               last' = [NoLast EXCEPT !.op = "get_multi_filtered",
                                      !.query = q,
                                      !.rows = Page(s, q.skip, q.limit)]
    /\ UNCHANGED <<clock, items, lock, calls, jobVars>>

\* PATCH /items/{item_id}: the If-Match value is parsed (400 when it is no
\* timestamp); update_with_lock is called without await from a plain `def`,
\* so nothing it would raise is raised and reading updated_at of what it
\* handed back raises AttributeError.
PatchItem(i, h, u) ==
    LET expected_updated_at == fromisoformat(strip(h))
        r == update_with_lock(items, i, u, expected_updated_at, clock, TRUE)
        raised == NotAwaited("None", r.raised)
        updated_item == NotAwaited(CoroutineItem, r.row)
        code == IF expected_updated_at = ValueError THEN HTTP_400_BAD_REQUEST
                ELSE IF raised = "HTTPException 404" THEN HTTP_404_NOT_FOUND
                ELSE IF raised = "HTTPException 412"
                THEN HTTP_412_PRECONDITION_FAILED
                ELSE IF raised = "None" /\ IsItem(updated_item) THEN HTTP_200_OK
                ELSE HTTP_500_INTERNAL_SERVER_ERROR
    IN
    /\ items' = IF expected_updated_at = ValueError THEN items
                ELSE NotAwaited(items, r.store)
    /\ last' = [NoLast EXCEPT
                  !.op = "PATCH", !.id = i, !.item_update = u, !.if_match = h,
                  !.status_code = code,
                  !.etag = IF code = HTTP_200_OK
                           THEN Quote(IsoFormat(updated_item.updated_at))
                           ELSE "None"]
    /\ UNCHANGED <<clock, lock, calls, jobVars>>

\* DELETE /items/{item_id}: get and delete are called without await, so
\* db_item is a coroutine (truthy: no 404) and nothing is deleted.
DeleteItem(i) ==
    LET db_item == NotAwaited(CoroutineItem, get(items, i)) IN
    /\ IF db_item = NoRow
       THEN /\ items' = items
            /\ last' = [NoLast EXCEPT !.op = "DELETE", !.id = i,
                                      !.status_code = HTTP_404_NOT_FOUND]
       ELSE /\ items' = NotAwaited(items, delete(items, i, TRUE).store)
            /\ last' = [NoLast EXCEPT !.op = "DELETE", !.id = i,
                                      !.status_code = HTTP_204_NO_CONTENT]
    /\ UNCHANGED <<clock, lock, calls, jobVars>>

\* A client sends DELETE /items/{item_id}; requests of several clients run
\* side by side.
CallDelete(c, i) ==
    /\ calls[c].pc \in {"idle", "done"}
    /\ calls' = [calls EXCEPT ![c] =
                    [IdleCall EXCEPT !.pc = "exists", !.item_id = i]]
    /\ UNCHANGED <<clock, items, lock, jobVars, last>>

\* delete_item, the existence check: get is called without await, so
\* db_item is a coroutine, which is truthy, and the 404 is not raised.
DeleteCheckExists(c) ==
    LET db_item == NotAwaited(CoroutineItem, get(items, calls[c].item_id)) IN
    /\ calls[c].pc = "exists"
    /\ calls' = IF db_item = NoRow
                THEN [calls EXCEPT ![c].pc = "done",
                                   ![c].result = HTTP_404_NOT_FOUND]
                ELSE [calls EXCEPT ![c].pc = "remove", ![c].db_obj = db_item]
    /\ UNCHANGED <<clock, items, lock, jobVars, last>>

\* delete_item, the removal and the return: delete is called without await,
\* so nothing is removed, and the route answers 204.
DeleteRemove(c) ==
    /\ calls[c].pc = "remove"
    /\ items' = NotAwaited(items, delete(items, calls[c].item_id, TRUE).store)
    /\ calls' = [calls EXCEPT ![c].pc = "done",
                              ![c].result = HTTP_204_NO_CONTENT]
    /\ UNCHANGED <<clock, lock, jobVars, last>>

\* GET /items/{item_id}: get is called without await, so item is a coroutine
\* (truthy: no 404) and reading item.updated_at raises AttributeError.
GetItem(i) ==
    LET item == NotAwaited(CoroutineItem, get(items, i))
        code == IF item = NoRow THEN HTTP_404_NOT_FOUND
                ELSE IF IsItem(item) THEN HTTP_200_OK
                ELSE HTTP_500_INTERNAL_SERVER_ERROR
    IN
    /\ last' = [NoLast EXCEPT
                  !.op = "GET", !.id = i, !.status_code = code,
                  !.row = IF code = HTTP_200_OK THEN item ELSE NoRow,
                  !.etag = IF code = HTTP_200_OK
                           THEN Quote(IsoFormat(item.updated_at)) ELSE "None"]
    /\ UNCHANGED <<clock, items, lock, calls, jobVars>>

\* GET /items/: get_multi_filtered is called with a keyword it does not
\* declare, which raises TypeError at the call; what an accepted call would
\* hand back un-awaited is no list of items.
ListItems(q) ==
    LET raised == IF ~(ListItemsKeywords \subseteq GetMultiFilteredParameters)
                  THEN "TypeError" ELSE "ResponseValidationError"
    IN
    /\ last' = [NoLast EXCEPT !.op = "LIST", !.query = q, !.raised = raised,
                              !.status_code = HTTP_500_INTERNAL_SERVER_ERROR]
    /\ UNCHANGED <<clock, items, lock, calls, jobVars>>

\* Stores of up to two rows for the repository operations and the item
\* routes: the second row is absent, newer than the first, or as old.
StoreInit ==
    /\ clock = 1
    /\ items \in {[i \in ItemIds |->
                     IF i = "i1" THEN Item("sofa", "SALE", 0, 0, CategoryIds)
                     ELSE second] :
                  second \in {NoRow, Item("desk", "RENT", 1, 1, {}),
                              Item("sofa", "RENT", 0, 0, {})}}
    /\ lock = [i \in ItemIds |-> "free"]
    /\ calls = [c \in Callers |-> IdleCall]
    /\ last = NoLast

\* Awaited repository operations and the item routes.
StoreNext ==
    \/ \E i \in ItemIds, o \in ItemCreate, committed \in BOOLEAN :
            SvcCreate(i, o, committed)
    \/ \E i \in ItemIds : SvcGet(i)
    \/ \E i \in ItemIds, committed \in BOOLEAN : SvcDelete(i, committed)
    \/ \E q \in ItemQuery : SvcGetMultiFiltered(q)
    \/ \E i \in ItemIds, h \in IfMatchValues,
          u \in {p \in ItemUpdate : p.transaction_type = "None"} :
            PatchItem(i, h, u)
    \/ \E i \in ItemIds : DeleteItem(i)
    \/ \E i \in ItemIds : GetItem(i)
    \/ \E q \in {p \in ItemQuery : p.title_search = "None"} : ListItems(q)

\* --------------------------------------------------------------- job table
\* A row of the jobs table.
Job(status, item_UUID, error_message) ==
    [status |-> status, item_UUID |-> item_UUID,
     error_message |-> error_message]

\* The absence of a job row.
NoJob == Job("None", "None", "None")

\* What a call of an `async def` function hands to a caller that does not
\* await it: a coroutine object, which is truthy and has none of the
\* attributes of the value the function would return.
Coroutine == Job("coroutine", "None", "None")

\* JobDataService.get_job
get_job(js, job_id) == js[job_id]

\* Variant of create_job that also fills the item id column with the key.
create_job_item_id(js, job_id) ==
    [js EXCEPT ![job_id] = Job("PENDING", job_id, "None")]

\* JobDataService.create_job
create_job(js, job_id) ==
    [js EXCEPT ![job_id] = Job("PENDING", "None", "None")]

\* Variant of update_job_status that assigns the item id and the
\* error_message whatever was passed.
update_job_status_overwrite(js, job_id, status, result_item_id, error_message) ==
    IF get_job(js, job_id) = NoJob
    THEN js
    ELSE [js EXCEPT ![job_id] = Job(status, result_item_id, error_message)]

\* JobDataService.update_job_status; None and the empty string are falsy.
update_job_status(js, job_id, status, result_item_id, error_message) ==
    IF get_job(js, job_id) = NoJob
    THEN js
    ELSE [js EXCEPT ![job_id] =
            Job(status,
                IF result_item_id # "None" THEN result_item_id ELSE @.item_UUID,
                IF error_message \notin {"None", ""}
                THEN error_message ELSE @.error_message)]

\* The log of a task's status writes after update_job_status has run for it.
LogWrite(log, js, job_id, status) ==
    IF get_job(js, job_id) = NoJob
    THEN log
    ELSE [log EXCEPT ![job_id] = Append(@, status)]

\* response_model=JobRead: the value the route returned is validated
\* against JobRead; a value without the fields of a job fails it.
SerializeJobRead(value) ==
    IF value.status \in JobStatus
    THEN HTTP_202_ACCEPTED
    ELSE HTTP_500_INTERNAL_SERVER_ERROR

NoPost == [pc |-> "none", returned |-> NoJob, status_code |-> NoResult]

\* No poll yet: no status code, no Location header.
NoPoll == [status_code |-> NoResult, location |-> "None"]

\* router.url_path_for("get_item", item_id=...)
url_path_for_get_item(item_id) == "/items/" \o item_id
NoTask == [pc |-> "unscheduled", error |-> "None", new_item |-> "None"]

JobInit ==
    /\ jobs = [j \in JobIds |-> NoJob]
    /\ post = [j \in JobIds |-> NoPost]
    /\ task = [j \in JobIds |-> NoTask]
    /\ taskWrites = [j \in JobIds |-> <<>>]
    /\ polled = [j \in JobIds |-> NoPoll]

\* POST /items/: uuid4() yields an id no job carries; create_job is called
\* without await from a plain `def`; the task is added; the route returns
\* what create_job handed back.
CreateItem(j) ==
    /\ post[j].pc = "none"
    /\ jobs[j] = NoJob
    /\ jobs' = NotAwaited(jobs, create_job(jobs, j))
    /\ task' = [task EXCEPT ![j].pc = "scheduled"]
    /\ post' = [post EXCEPT ![j].pc = "returned",
                            ![j].returned =
                                NotAwaited(Coroutine, get_job(create_job(jobs, j), j))]
    /\ UNCHANGED <<taskWrites, polled, itemVars, last>>

\* The framework serialises the returned value and sends the response.
SendResponse(j) ==
    /\ post[j].pc = "returned"
    /\ post' = [post EXCEPT ![j].pc = "responded",
                            ![j].status_code = SerializeJobRead(post[j].returned)]
    /\ UNCHANGED <<jobs, task, taskWrites, polled, itemVars, last>>

\* The framework gives up the scheduled task of a request whose response
\* could not be produced.
DropTask(j) ==
    /\ post[j].pc = "responded"
    /\ post[j].status_code = HTTP_500_INTERNAL_SERVER_ERROR
    /\ task[j].pc = "scheduled"
    /\ task' = [task EXCEPT ![j].pc = "dropped"]
    /\ UNCHANGED <<jobs, post, taskWrites, polled, itemVars, last>>

\* run_item_creation_task, first call: update_job_status(RUNNING), called
\* without await from a plain `def`.  Background tasks run after the
\* response.
TaskMarkRunning(j) ==
    /\ task[j].pc = "scheduled"
    /\ post[j].pc = "responded"
    /\ jobs' = NotAwaited(jobs,
                    update_job_status(jobs, j, "RUNNING", "None", "None"))
    /\ taskWrites' = NotAwaited(taskWrites,
                    LogWrite(taskWrites, jobs, j, "RUNNING"))
    /\ task' = [task EXCEPT ![j].pc = "running"]
    /\ UNCHANGED <<post, polled, itemVars, last>>

\* Variant of the item creation whose create is awaited and commits the
\* item, after which the COMPLETED update fails.
TaskCreateItem_awaited(j, snapshot_valid) ==
    /\ task[j].pc = "running"
    /\ \E new_id \in ItemIds, obj_in \in ItemCreate :
          /\ items[new_id] = NoRow
          /\ items' = IF snapshot_valid
                      THEN [items EXCEPT ![new_id] =
                              Item(obj_in.title, obj_in.transaction_type,
                                   clock, clock, {})]
                      ELSE items
          /\ task' = [task EXCEPT
                        ![j].pc = "except",
                        ![j].error = IF snapshot_valid THEN "OperationalError"
                                     ELSE "ValidationError",
                        ![j].new_item = IF snapshot_valid THEN new_id
                                        ELSE "None"]
    /\ UNCHANGED <<jobs, post, taskWrites, polled, clock, lock, calls, last>>

\* run_item_creation_task, the item creation: ItemCreate(**item_in_dict)
\* raises for a snapshot that fails validation; otherwise create() is
\* called without await and hands back a coroutine, so no item is stored,
\* and reading new_item.item_UUID raises AttributeError before
\* update_job_status(COMPLETED) is called.  new_item records the row the
\* task has persisted, if any.
TaskCreateItem(j, snapshot_valid) ==
    /\ task[j].pc = "running"
    /\ \E new_id \in ItemIds, obj_in \in ItemCreate :
          LET store == IF snapshot_valid
                       THEN NotAwaited(items, create(items, new_id, obj_in,
                                                     clock, TRUE).store)
                       ELSE items
          IN /\ items[new_id] = NoRow
             /\ items' = store
             /\ task' = [task EXCEPT
                           ![j].pc = "except",
                           ![j].error = IF snapshot_valid
                                        THEN "AttributeError"
                                        ELSE "ValidationError",
                           ![j].new_item = IF store[new_id] # NoRow
                                           THEN new_id ELSE "None"]
    /\ UNCHANGED <<jobs, post, taskWrites, polled, clock, lock, calls, last>>

\* Variant of the except branch whose update_job_status(FAILED) takes effect.
TaskExcept_awaited(j) ==
    /\ task[j].pc = "except"
    /\ jobs' = update_job_status(jobs, j, "FAILED", "None", task[j].error)
    /\ taskWrites' = LogWrite(taskWrites, jobs, j, "FAILED")
    /\ task' = [task EXCEPT ![j].pc = "done"]
    /\ UNCHANGED <<post, polled, itemVars, last>>

\* run_item_creation_task, the except branch and the finally: the failure
\* is printed, update_job_status(FAILED, str(e)) is called without await,
\* the session is closed and the task returns.
TaskExcept(j) ==
    /\ task[j].pc = "except"
    /\ jobs' = NotAwaited(jobs,
                    update_job_status(jobs, j, "FAILED", "None", task[j].error))
    /\ taskWrites' = NotAwaited(taskWrites,
                    LogWrite(taskWrites, jobs, j, "FAILED"))
    /\ task' = [task EXCEPT ![j].pc = "done"]
    /\ UNCHANGED <<post, polled, itemVars, last>>

\* GET /items/jobs/{job_id}: get_job is called without await, so `job` is
\* a coroutine: it is truthy (no 404) and reading job.status raises before
\* the Location header is set.
GetJobStatus(j) ==
    LET job == NotAwaited(Coroutine, get_job(jobs, j))
        code == IF job = NoJob THEN HTTP_404_NOT_FOUND
                ELSE IF job.status \in JobStatus THEN HTTP_200_OK
                ELSE HTTP_500_INTERNAL_SERVER_ERROR
    IN
    /\ polled' = [polled EXCEPT ![j] =
                    [status_code |-> code,
                     location |-> IF code = HTTP_200_OK
                                     /\ job.status = "COMPLETED"
                                  THEN url_path_for_get_item(job.item_UUID)
                                  ELSE "None"]]
    /\ UNCHANGED <<jobs, post, task, taskWrites, itemVars, last>>

\* An awaiting caller runs JobDataService.create_job; a second insert of a
\* primary key fails.
SvcCreateJob(j, committed) ==
    /\ jobs[j] = NoJob
    /\ jobs' = EndTransaction(jobs, create_job(jobs, j), committed)
    /\ last' = [NoLast EXCEPT
                  !.op = "create_job", !.id = j,
                  !.raised = IF committed THEN "None" ELSE "OperationalError"]
    /\ UNCHANGED <<post, task, taskWrites, polled, itemVars>>

\* Variant of the call that inserts a row for a job id that has none.
SvcUpdateJobStatus_upsert(j, status, result_item_id, error_message, committed) ==
    /\ jobs' = IF get_job(jobs, j) = NoJob
               THEN [jobs EXCEPT ![j] =
                        Job(status, result_item_id, error_message)]
               ELSE update_job_status(jobs, j, status, result_item_id,
                                      error_message)
    /\ last' = [NoLast EXCEPT !.op = "update_job_status", !.id = j]
    /\ UNCHANGED <<post, task, taskWrites, polled, itemVars>>

\* An awaiting caller runs JobDataService.update_job_status; the commit
\* runs only when the row was found.
SvcUpdateJobStatus(j, status, result_item_id, error_message, committed) ==
    /\ jobs' = EndTransaction(
                  jobs,
                  update_job_status(jobs, j, status, result_item_id,
                                    error_message),
                  committed \/ get_job(jobs, j) = NoJob)
    /\ last' = [NoLast EXCEPT
                  !.op = "update_job_status", !.id = j,
                  !.raised = IF committed \/ get_job(jobs, j) = NoJob
                             THEN "None" ELSE "OperationalError"]
    /\ UNCHANGED <<post, task, taskWrites, polled, itemVars>>

\* The routes, the task and direct calls of the job repository; the commits
\* of update_job_status succeed.
JobNext ==
    \/ \E j \in JobIds : CreateItem(j)
    \/ \E j \in JobIds : SendResponse(j)
    \/ \E j \in JobIds : DropTask(j)
    \/ \E j \in JobIds : TaskMarkRunning(j)
    \/ \E j \in JobIds, v \in BOOLEAN : TaskCreateItem(j, v)
    \/ \E j \in JobIds : TaskExcept(j)
    \/ \E j \in JobIds : GetJobStatus(j)
    \/ \E j \in JobIds, committed \in BOOLEAN : SvcCreateJob(j, committed)
    \/ \E j \in JobIds, st \in JobStatus, r \in {"None", "i1"},
          e \in {"None", "", "AttributeError"} :
            SvcUpdateJobStatus(j, st, r, e, TRUE)

Init == ItemInit /\ JobInit

Spec == Init /\ [][ItemNext]_vars

\* The payloads of the calls under fair scheduling: the title set or not.
LiveUpdates ==
    {p \in ItemUpdate : p.transaction_type = "None" /\ p.category_ids = {}}

\* The update_with_lock calls of the two callers within one tick of the
\* clock.
LiveNext ==
    \/ \E c \in Callers, i \in ItemIds, e \in Timestamps : CallUpdate(c, i, e)
    \/ \E c \in Callers : SelectForUpdate(c)
    \/ \E c \in Callers : CheckETag(c)
    \/ \E c \in Callers, u \in LiveUpdates, committed \in BOOLEAN :
            CommitUpdate(c, u, committed)

\* Fair scheduling: a call that can run its comparison or its commit does
\* so, and a call that waits for a row lock is granted it once it is free
\* (the database queues the waiters of a lock).
LiveSpec ==
    /\ Init
    /\ [][LiveNext]_vars
    /\ \A c \in Callers :
          /\ SF_vars(SelectForUpdate(c))
          /\ WF_vars(CheckETag(c))
          /\ WF_vars(\E u \in LiveUpdates, committed \in BOOLEAN :
                        CommitUpdate(c, u, committed))

JobSpec == Init /\ [][JobNext]_vars

\* The routes and the task, over a table whose rows come from create_job.
HttpSpecNext ==
    \/ \E j \in JobIds : CreateItem(j)
    \/ \E j \in JobIds : SendResponse(j)
    \/ \E j \in JobIds : DropTask(j)
    \/ \E j \in JobIds : TaskMarkRunning(j)
    \/ \E j \in JobIds, v \in BOOLEAN : TaskCreateItem(j, v)
    \/ \E j \in JobIds : TaskExcept(j)
    \/ \E j \in JobIds : GetJobStatus(j)
    \/ \E j \in JobIds, committed \in BOOLEAN : SvcCreateJob(j, committed)

HttpSpec == Init /\ [][HttpSpecNext]_vars

\* Awaited calls of the job repository alone, with commits that succeed or
\* fail.
JobRepoNext ==
    \/ \E j \in JobIds, committed \in BOOLEAN : SvcCreateJob(j, committed)
    \/ \E j \in JobIds, st \in JobStatus, r \in {"None", "i1"},
          e \in {"None", "", "AttributeError"}, committed \in BOOLEAN :
            SvcUpdateJobStatus(j, st, r, e, committed)

JobRepoSpec == Init /\ [][JobRepoNext]_vars

\* Concurrent DELETE requests, next to awaited get and delete calls of the
\* repository.
DeleteNext ==
    \/ \E c \in Callers, i \in ItemIds : CallDelete(c, i)
    \/ \E c \in Callers : DeleteCheckExists(c)
    \/ \E c \in Callers : DeleteRemove(c)
    \/ \E i \in ItemIds : SvcGet(i)
    \/ \E i \in ItemIds, committed \in BOOLEAN : SvcDelete(i, committed)

DeleteSpec == Init /\ [][DeleteNext]_vars

StoreSpecInit == StoreInit /\ JobInit

StoreSpec == StoreSpecInit /\ [][StoreNext]_vars

\* Every mutating repository operation, each with a commit that succeeds
\* or fails: one caller of update_with_lock and one job row.
TxNext ==
    \/ \E i \in ItemIds, e \in Timestamps : CallUpdate("a", i, e)
    \/ SelectForUpdate("a")
    \/ CheckETag("a")
    \/ \E u \in {p \in ItemUpdate : p.transaction_type = "None"},
          committed \in BOOLEAN :
            CommitUpdate("a", u, committed)
    \/ \E i \in ItemIds, o \in {p \in ItemCreate : p.category_ids = {}},
          committed \in BOOLEAN :
            SvcCreate(i, o, committed)
    \/ \E i \in ItemIds, u \in {p \in ItemUpdate : p.category_ids = {}},
          committed \in BOOLEAN :
            SvcUpdate(i, u, committed)
    \/ \E i \in ItemIds, committed \in BOOLEAN : SvcDelete(i, committed)
    \/ \E committed \in BOOLEAN : SvcCreateJob("j1", committed)
    \/ \E st \in JobStatus, r \in {"None", "i1"},
          e \in {"None", "AttributeError"}, committed \in BOOLEAN :
            SvcUpdateJobStatus("j1", st, r, e, committed)

TxSpec == Init /\ [][TxNext]_vars

\* ================================================================== claims

Done(c) == calls[c].pc = "done"
Succeeded(c) == Done(c) /\ calls[c].result = HTTP_200_OK

\* C1: of two update_with_lock calls on the same item that carry the same
\* expected timestamp at most one succeeds (no lost update).
C1_NoLostUpdate ==
    \A c1, c2 \in Callers :
        (/\ c1 # c2
         /\ calls[c1].item_id = calls[c2].item_id
         /\ calls[c1].expected_updated_at = calls[c2].expected_updated_at)
        => ~(Succeeded(c1) /\ Succeeded(c2))

\* The status changes the job state machine allows.
AllowedTransitions ==
    {<<"PENDING", "RUNNING">>, <<"RUNNING", "COMPLETED">>,
     <<"RUNNING", "FAILED">>}

C3_EventuallyTerminal ==
    \A j \in JobIds :
        task[j].pc = "done" => get_job(jobs, j).status \in Terminal

\* C4: one run of the task performs exactly one status write whose new
\* status is terminal.
C4_OneTerminalWrite ==
    \A j \in JobIds :
        task[j].pc = "done" =>
            Len(SelectSeq(taskWrites[j], LAMBDA st : st \in Terminal)) = 1

\* C5: update_with_lock on an existing row whose updated_at differs from the
\* expected timestamp fails with 412 and leaves every row, its updated_at and
\* its category links as they were.
C5_MismatchRejected ==
    [][\A c \in Callers :
          (/\ calls[c].pc = "check"
           /\ calls'[c].pc # "check"
           /\ items[calls[c].item_id] # NoRow
           /\ items[calls[c].item_id].updated_at # calls[c].expected_updated_at)
          => (/\ calls'[c].pc = "done"
              /\ calls'[c].result = HTTP_412_PRECONDITION_FAILED
              /\ items' = items)]_vars

\* A call has been rejected with 412 while the row exists.
C5_Witness ==
    \E c \in Callers :
        /\ Done(c)
        /\ calls[c].result = HTTP_412_PRECONDITION_FAILED
        /\ items[calls[c].item_id] # NoRow
        /\ items[calls[c].item_id].updated_at # calls[c].expected_updated_at

\* C6: every successful update_with_lock leaves the row with an updated_at
\* strictly greater than before the call, whatever the payload.
C6_TimestampAdvances ==
    [][\A c \in Callers :
          (calls[c].pc = "commit" /\ calls'[c].result = HTTP_200_OK)
          => items'[calls[c].item_id].updated_at
                > items[calls[c].item_id].updated_at]_vars

C8_PendingResponse ==
    \A j \in JobIds :
        /\ post[j].pc = "responded" =>
              /\ post[j].status_code = HTTP_202_ACCEPTED
              /\ post[j].returned.status = "PENDING"
        /\ task[j].pc \in {"running", "except", "done"} =>
              post[j].pc = "responded"
        /\ (post[j].pc = "responded" /\ task[j].pc = "scheduled") =>
              get_job(jobs, j).status = "PENDING"

\* C9: when a step of the task fails the job ends FAILED with the failure
\* description as its error_message.
C9_FailureRecorded ==
    \A j \in JobIds :
        (task[j].pc = "done" /\ task[j].error # "None") =>
            /\ get_job(jobs, j).status = "FAILED"
            /\ get_job(jobs, j).error_message = task[j].error

\* C10: an accepted POST /items/ persists one PENDING job under a fresh id
\* and schedules one task for it; no task runs for an id without a row.
C10_PersistAndSchedule ==
    [][\A j \in JobIds :
          (post[j].pc = "none" /\ post'[j].pc # "none")
          => (/\ jobs[j] = NoJob
              /\ jobs'[j] = Job("PENDING", "None", "None")
              /\ task[j].pc = "unscheduled"
              /\ task'[j].pc = "scheduled")]_vars

\* C11: update_with_lock for an item id that has no row fails with 404
\* whatever the expected timestamp is, before any timestamp comparison, and
\* it creates no row and changes no row.
C11_MissingRowNotFound ==
    [][\A c \in Callers :
          (/\ calls[c].pc = "select"
           /\ calls'[c].pc # "select"
           /\ items[calls[c].item_id] = NoRow)
          => (/\ calls'[c].pc = "done"
              /\ calls'[c].result = HTTP_404_NOT_FOUND
              /\ items' = items)]_vars

\* A call on an id without a row has ended with 404 although its expected
\* timestamp is one that rows carry.
C11_Witness ==
    \E c \in Callers :
        /\ Done(c)
        /\ calls[c].result = HTTP_404_NOT_FOUND
        /\ items[calls[c].item_id] = NoRow
        /\ \E i \in ItemIds : items[i] # NoRow
                /\ items[i].updated_at = calls[c].expected_updated_at

\* C13: after a successful update_with_lock whose payload has the category
\* id field present, the links of the item are exactly the requested ids
\* that resolve to existing categories (none for an empty list).
C13_LinksReplaced ==
    [][\A c \in Callers, u \in ItemUpdate :
          (/\ "category_ids" \in u.fields_set
           /\ CommitUpdate(c, u, TRUE))
          => items'[calls[c].item_id].categories
                = ResolveCategories(u.category_ids)]_vars

\* C14: a successful update_with_lock changes only the columns whose fields
\* are present in the payload, leaves the links alone when the category id
\* field is absent, and writes no attribute outside the item's columns.
C14_OnlyPresentColumns ==
    [][\A c \in Callers, u \in ItemUpdate :
          CommitUpdate(c, u, TRUE)
          => LET old == items[calls[c].item_id]
                 new == items'[calls[c].item_id]
             IN /\ "title" \notin u.fields_set => new.title = old.title
                /\ "transaction_type" \notin u.fields_set
                      => new.transaction_type = old.transaction_type
                /\ "title" \in u.fields_set => new.title = u.title
                /\ "transaction_type" \in u.fields_set
                      => new.transaction_type = u.transaction_type
                /\ new.created_at = old.created_at
                /\ "category_ids" \notin u.fields_set
                      => new.categories = old.categories
                /\ \A i \in ItemIds \ {calls[c].item_id} :
                      items'[i] = items[i]
                /\ calls'[c].attrs = {}]_vars

\* C12: PATCH /items/{item_id} answers 400 to a malformed If-Match value and
\* changes nothing; otherwise 404 when the item has no row; otherwise 412
\* when the row's updated_at differs from the parsed value; otherwise 200
\* with an ETag that is the quoted ISO form of the stored updated_at.
C12_PatchResponses ==
    [][last'.op = "PATCH"
       => LET expected == fromisoformat(strip(last'.if_match))
              old == items[last'.id]
              new == items'[last'.id]
          IN IF expected = ValueError
             THEN last'.status_code = HTTP_400_BAD_REQUEST /\ items' = items
             ELSE IF old = NoRow
             THEN last'.status_code = HTTP_404_NOT_FOUND
             ELSE IF old.updated_at # expected
             THEN last'.status_code = HTTP_412_PRECONDITION_FAILED
             ELSE /\ last'.status_code = HTTP_200_OK
                  /\ last'.etag = Quote(IsoFormat(new.updated_at))]_vars

\* C15: create succeeds whatever part of the category ids resolves, and the
\* item it yields is linked to exactly the resolvable ids (to none when no
\* id is given or none resolves).
C15_CreateLinksResolvable ==
    (last.op = "create" /\ last.raised # "OperationalError")
    => /\ last.raised = "None"
       /\ items[last.id] # NoRow
       /\ items[last.id].categories
             = ResolveCategories(last.obj_in.category_ids)

\* C16: get of the id that create returned, with no mutation in between,
\* gives an item whose stored fields equal the fields of the payload.
C16_CreateThenGet ==
    (last.op = "create" /\ last.raised # "OperationalError")
    => LET got == get(items, last.id) IN
       /\ got.title = last.obj_in.title
       /\ got.transaction_type = last.obj_in.transaction_type

\* C17: delete of an id without a row returns absent, DELETE of it answers
\* 404, and both leave the store unchanged; after a delete or a DELETE that
\* succeeded the id has no row, so that the next one reports not-found.
C17_DeleteNotFound ==
    [][/\ last'.op = "delete"
          => /\ items[last'.id] = NoRow
                   => (last'.row = NoRow /\ items' = items)
             /\ (items[last'.id] # NoRow /\ last'.raised = "None")
                   => items'[last'.id] = NoRow
       /\ last'.op = "DELETE"
          => /\ items[last'.id] = NoRow
                   => (last'.status_code = HTTP_404_NOT_FOUND
                       /\ items' = items)
             /\ last'.status_code = HTTP_204_NO_CONTENT
                   => items'[last'.id] = NoRow]_vars

\* C18: a poll of an unknown job id answers 404; a poll sets the Location
\* header exactly when the job is COMPLETED, and then to the URL of the item
\* whose id the job records.
C18_LocationWhenCompleted ==
    [][\A j \in JobIds :
          polled'[j] # polled[j]
          => /\ jobs[j] = NoJob
                   => polled'[j].status_code = HTTP_404_NOT_FOUND
             /\ (polled'[j].location # "None")
                   <=> (jobs[j].status = "COMPLETED")
             /\ polled'[j].location # "None"
                   => polled'[j].location
                         = url_path_for_get_item(jobs[j].item_UUID)]_vars

\* C19: a filtered listing returns the page (skip dropped, at most limit
\* kept) of the rows that satisfy every supplied predicate, newest first;
\* the route that serves it answers 200.
C19_FilteredListing ==
    /\ last.op = "get_multi_filtered"
       => LET q == last.query
              expected ==
                {i \in ItemIds :
                    /\ items[i] # NoRow
                    /\ q.ids # NoneList => i \in q.ids
                    /\ q.transaction_type # "None"
                          => items[i].transaction_type = q.transaction_type
                    /\ q.category_id # "None"
                          => q.category_id \in items[i].categories
                    /\ q.title_search # "None"
                          => ilike(items[i].title, q.title_search)}
          IN /\ last.raised = "None"
             /\ \E s \in Orderings(items, expected) :
                   last.rows = Page(s, q.skip, q.limit)
    /\ last.op = "LIST" => last.status_code = HTTP_200_OK

\* C20: a mutating operation that fails at or before its commit (create,
\* update, update_with_lock, delete, create_job, update_job_status) leaves
\* the persisted items, their links and the persisted jobs as they were.
C20_FailureLeavesStore ==
    [][(\/ last' # last /\ last'.raised # "None"
        \/ \E c \in Callers :
              /\ calls[c].pc # "done"
              /\ calls'[c].pc = "done"
              /\ calls'[c].result # HTTP_200_OK)
       => (items' = items /\ jobs' = jobs)]_vars

\* The commit of an update_with_lock whose row exists has failed, and so has
\* the commit of an update_job_status on a job row that exists.
C20_Witness ==
    /\ \E c \in Callers :
          /\ Done(c)
          /\ calls[c].result = HTTP_500_INTERNAL_SERVER_ERROR
          /\ items[calls[c].item_id] # NoRow
    /\ last.op = "update_job_status"
    /\ last.raised = "OperationalError"
    /\ jobs["j1"] # NoJob

\* C21: update_job_status for a job id that has no record raises nothing,
\* creates no job record and leaves every job record as it was.
C21_MissingJobNoOp ==
    [][\A j \in JobIds, st \in JobStatus, r \in {"None", "i1"},
          e \in {"None", "", "AttributeError"}, committed \in BOOLEAN :
          (/\ last'.op = "update_job_status"
           /\ last'.id = j
           /\ get_job(jobs, j) = NoJob
           /\ SvcUpdateJobStatus(j, st, r, e, committed))
          => (jobs' = jobs /\ last'.raised = "None")]_vars

\* update_job_status has run for a job id without a record while another
\* job has one.
C21_Witness ==
    /\ last.op = "update_job_status"
    /\ last.raised = "None"
    /\ get_job(jobs, last.id) = NoJob
    /\ \E j \in JobIds : get_job(jobs, j) # NoJob

\* C24: update_job_status on an existing job overwrites the status, sets
\* the item id only when one is passed and the error_message only when a
\* non-empty one is passed, keeps the previous values otherwise, and
\* touches no other job.
C24_StatusOverwriteFieldsKept ==
    [][\A j \in JobIds, st \in JobStatus, r \in {"None", "i1"},
          e \in {"None", "", "AttributeError"} :
          (/\ last'.op = "update_job_status"
           /\ last'.id = j
           /\ get_job(jobs, j) # NoJob
           /\ SvcUpdateJobStatus(j, st, r, e, TRUE))
          => /\ jobs'[j].status = st
             /\ jobs'[j].item_UUID
                   = IF r # "None" THEN r ELSE jobs[j].item_UUID
             /\ jobs'[j].error_message
                   = IF e \notin {"None", ""} THEN e
                     ELSE jobs[j].error_message
             /\ \A k \in JobIds \ {j} : jobs'[k] = jobs[k]]_vars

\* A later update_job_status without item id and without error_message has
\* run on a job that carried both, and both are still there.
C24_Witness ==
    \E j \in JobIds :
        /\ last.op = "update_job_status"
        /\ last.id = j
        /\ jobs[j].status = "RUNNING"
        /\ jobs[j].item_UUID = "i1"
        /\ jobs[j].error_message = "AttributeError"

\* The callers whose update_with_lock has read the row of item i and has
\* not yet committed or been rejected.
Holders(i) ==
    {c \in Callers : calls[c].pc \in {"check", "commit"}
                     /\ calls[c].item_id = i}

\* C22: at most one update_with_lock holds the lock of an item row; it holds
\* it from its read of the row through its commit, and in between no other
\* call reads or writes the row, so what it read is what the row still is.
C22_ExclusiveRowLock ==
    /\ [](\A i \in ItemIds :
            /\ Cardinality(Holders(i)) <= 1
            /\ \A c \in Holders(i) :
                  lock[i] = c /\ calls[c].db_obj = items[i])
    /\ [][\A c \in Callers :
            (calls[c].pc \in {"check", "commit"} /\ calls'[c] = calls[c])
            => /\ items'[calls[c].item_id] = items[calls[c].item_id]
               /\ lock'[calls[c].item_id] = c]_vars

\* One call is about to commit on a row while the other, on the same item,
\* waits in its select.
C22_Witness ==
    \E c1, c2 \in Callers :
        /\ calls[c1].pc = "commit"
        /\ calls[c2].pc = "select"
        /\ calls[c1].item_id = calls[c2].item_id
        /\ lock[calls[c1].item_id] = c1

\* C23: a call that has returned, on whatever path, holds no row lock, and
\* under fair scheduling every call that has entered update_with_lock
\* returns, so none waits for a lock for ever.
C23_LockReleasedAndReturns ==
    /\ [](\A c \in Callers :
            calls[c].pc \in {"idle", "done"}
            => \A i \in ItemIds : lock[i] # c)
    /\ \A c \in Callers :
          (calls[c].pc = "select") ~> (calls[c].pc = "done")

\* A call has returned 412 and another has returned 500 from a failed
\* commit, and every row lock is free.
C23_Witness ==
    /\ \E c1, c2 \in Callers :
          /\ Done(c1) /\ calls[c1].result = HTTP_412_PRECONDITION_FAILED
          /\ Done(c2) /\ calls[c2].result = HTTP_500_INTERNAL_SERVER_ERROR
    /\ \A i \in ItemIds : lock[i] = "free"

C27_ConcurrentDeletes ==
    /\ \A c1, c2 \in Callers :
          (/\ c1 # c2
           /\ Done(c1) /\ Done(c2)
           /\ calls[c1].item_id = calls[c2].item_id)
          => ~(/\ calls[c1].result = HTTP_204_NO_CONTENT
               /\ calls[c2].result = HTTP_204_NO_CONTENT)
    /\ \A c \in Callers :
          (Done(c) /\ calls[c].result \in {HTTP_204_NO_CONTENT,
                                          HTTP_404_NOT_FOUND})
          => items[calls[c].item_id] = NoRow
====
